---------------------------- MODULE Spec2Model ----------------------------
(***************************************************************************)
(* Model of the andy-warhol mortgage cashflow service.                     *)
(*                                                                         *)
(*   - the amortization package (amortization/amortization.go and the      *)
(*     pre-allocating revision of the same file): Validate,                *)
(*     ConvertCPRToSMM, GetAmortizationTable, TrueUpBalances;              *)
(*   - applyTransition and scaleDistribution of the README's Delinquency   *)
(*     Transition Model;                                                   *)
(*   - the HTTP handlers getLoans and requestCashflow in their three       *)
(*     revisions: the asynchronous one of main.go, the sequential          *)
(*     validating one, and the WaitGroup worker pool of the README.        *)
(*                                                                         *)
(* Specifications: Spec is the service with two POST requests and a GET in  *)
(* flight, FairSpec the same under the scheduling Go guarantees, EngineSpec *)
(* the package's methods called on one descriptor, TableSpec TrueUpBalances *)
(* called on a table a caller built.                                        *)
(*                                                                         *)
(* Money.  The Go code works in float64 dollars and rounds what it stores  *)
(* to cents.  Here an unrounded amount is an integer number of mills       *)
(* (1/1000 dollar) and a stored, rounded amount an integer number of       *)
(* cents.  Rates: wac is in whole percentage points, prepayCPR in whole    *)
(* percent, an SMM in parts per million.                                   *)
(***************************************************************************)
EXTENDS Integers, Sequences, FiniteSets, TLC

VARIABLES
    \* ---- amortization package, one calculation ----
    loan,       \* the LoanInfo the methods are called on (SMMArr is mutated)
    rev,        \* which revision of GetAmortizationTable is under test
    fpTie,      \* how float64 decides |x| < 0.01 when x is one cent exactly
    verr,       \* what Validate returned: "unset", "nil" or "error"
    out,        \* what GetAmortizationTable did: [ok, table]
    calls,      \* how many package calls were made on this loan
    delinq,     \* the delinquency distribution last computed: [status, ...]
    \* ---- the HTTP service ----
    variant,    \* the revision of requestCashflow that is deployed
    body,       \* per POST request: the JSON body, [ok, loans]
    hpc,        \* per POST request: where its handler is
    hidx,       \* per POST request: how far the handler's current loop is
    results,    \* per POST request: the handler's results slice
    resp,       \* per POST request: the response sent, code 0 while none is
    wpc,        \* per POST request and loan index: where its goroutine is
    files,      \* per POST request and loan index: the JSON document written
    wg,         \* per POST request: the WaitGroup counter
    workerPool, \* number of tokens in the workerPool channel
    mu,         \* the RWMutex: [w: writer holding it or 0, r: readers holding it]
    mortgages,  \* the processed-loans slice, each loan tagged [req, idx]
    gpc,        \* where the GET /loans handler is
    listing,    \* what the GET /loans handler serialises
    vpass,      \* per POST request: how many loans have passed Validate
    vfail,      \* per POST request: whether Validate rejected a loan
    outOfOrder  \* per POST request: whether a later loan finished before an earlier

evars == <<loan, rev, verr, out, calls, delinq>>

svars == <<variant, body, hpc, hidx, results, resp, wpc, files, wg, workerPool,
           mu, mortgages, gpc, listing, vpass, vfail, outOfOrder>>

vars == <<evars, fpTie, svars>>

-----------------------------------------------------------------------------
(* Bounds of the model. *)

MaxWam == 3

\* Loans in one POST body.
MaxBatch == 2

\* Capacity of the workerPool channel (100 in main.go).
WorkerLimit == 1

-----------------------------------------------------------------------------
(* Arithmetic helpers. *)

Abs(x) == IF x < 0 THEN -x ELSE x


RECURSIVE Pow(_, _)
Pow(b, e) == IF e <= 0 THEN 1 ELSE b * Pow(b, e - 1)

RECURSIVE GCD(_, _)
GCD(a, b) == IF b = 0 THEN a ELSE GCD(b, a % b)

\* math.Round of the quotient n/d (d > 0): nearest integer, halves away from zero.
RoundDiv(n, d) ==
    LET m == Abs(n)
        q == IF 2 * (m % d) >= d THEN (m \div d) + 1 ELSE m \div d
    IN  IF n < 0 THEN -q ELSE q


\* math.Round(x*100)/100 of an unrounded amount of m mills, in cents.
RoundCent(m) == RoundDiv(m, 10)

\* ClampBal with the floor at zero left out.
ClampBalNone(m) == m

\* "if tmp_face < 0.0 { tmp_face = 0 }"
ClampBal(m) == IF m < 0 THEN 0 ELSE m

-----------------------------------------------------------------------------
(* Data model: amortization.LoanInfo, AmortizationTable, DelinqArrays. *)

\* A Go slice is either nil or an array of values.
NilSlice == [nil |-> TRUE, a |-> <<>>]

Slice(seq) == [nil |-> FALSE, a |-> seq]

\* make([]float64, n): n zeros.
MakeSlice(n) == Slice([k \in 1..n |-> 0])

\* The eight roll-rate vectors are nil unless the JSON carries them.
LoanInfo(id, wam, wac, face, cpr, smm, dq) ==
    [ID |-> id, Wam |-> wam, Wac |-> wac, Face |-> face, PrepayCPR |-> cpr,
     SMMArr |-> smm, StaticDQ |-> dq,
     PerformingTransition |-> NilSlice, DQ30Transition |-> NilSlice,
     DQ60Transition |-> NilSlice, DQ90Transition |-> NilSlice,
     DQ120Transition |-> NilSlice, DQ150Transition |-> NilSlice,
     DQ180Transition |-> NilSlice, DefaultTransition |-> NilSlice]

\* A descriptor whose JSON carries the roll-rate vector v for every state.
WithTransitions(l, v) ==
    [l EXCEPT !.PerformingTransition = v, !.DQ30Transition = v,
              !.DQ60Transition = v, !.DQ90Transition = v,
              !.DQ120Transition = v, !.DQ150Transition = v,
              !.DQ180Transition = v, !.DefaultTransition = v]

DelinqArrays == [PerfArr |-> <<>>, DQ30Arr |-> <<>>, DQ60Arr |-> <<>>,
                 DQ90Arr |-> <<>>, DQ120Arr |-> <<>>, DQ150Arr |-> <<>>,
                 DQ180Arr |-> <<>>, DefaultArr |-> <<>>]

AmortizationTable(per, beg, int, prin, sched, prepay, end) ==
    [Period |-> per, BegBal |-> beg, Interest |-> int, Principal |-> prin,
     SchedBal |-> sched, PrepayAmountArr |-> prepay, EndBal |-> end,
     DelinqArrays |-> DelinqArrays]

EmptyTable == AmortizationTable(<<>>, <<>>, <<>>, <<>>, <<>>, <<>>, <<>>)

-----------------------------------------------------------------------------
(* LoanInfo.Validate *)

\* The largest face value the best-practices guide lets Validate accept.
MaxFace == 100000000

Validate(l) ==
    IF l.ID = "" THEN "error"
    ELSE IF l.Wam <= 0 \/ l.Wam > 480 THEN "error"
    ELSE IF l.Wac < 0 \/ l.Wac > 30 THEN "error"
    ELSE IF l.Face <= 0 THEN "error"
    ELSE IF l.PrepayCPR < 0 \/ l.PrepayCPR >= 100 THEN "error"
    ELSE "nil"

-----------------------------------------------------------------------------
(* LoanInfo.ConvertCPRToSMM *)

\* smm := 1 - math.Pow(1-l.PrepayCPR, 1.0/12.0), in parts per million, for the
\* prepayment speeds (in percent) the model feeds in.
SMMOf(cpr) == CASE cpr = 0  -> 0
                [] cpr = 6  -> 5143
                [] cpr = 20 -> 18423
                [] cpr = 50 -> 56126

\* ConvertCPRToSMM taking a zero prepayCPR for "not set" and falling back to the
\* 6% CPR of the documentation's examples.
ConvertCPRToSMMDefaultSpeed(l) ==
    IF l.SMMArr.nil
    THEN [l EXCEPT !.SMMArr = Slice([k \in 1..l.Wam |->
                                 SMMOf(IF l.PrepayCPR = 0 THEN 6 ELSE l.PrepayCPR)])]
    ELSE l

\* ConvertCPRToSMM using the speed up: prepayCPR is cleared once it is converted.
ConvertCPRToSMMConsuming(l) ==
    IF l.PrepayCPR # 0 /\ l.SMMArr.nil
    THEN [l EXCEPT !.SMMArr = Slice([k \in 1..l.Wam |-> SMMOf(l.PrepayCPR)]),
                   !.PrepayCPR = 0]
    ELSE IF l.SMMArr.nil
    THEN [l EXCEPT !.SMMArr = MakeSlice(l.Wam)]
    ELSE l

\* amortization.go: a schedule already on the descriptor is never replaced.
ConvertCPRToSMM(l) ==
    IF l.PrepayCPR # 0 /\ l.SMMArr.nil
    THEN [l EXCEPT !.SMMArr = Slice([k \in 1..l.Wam |-> SMMOf(l.PrepayCPR)])]
    ELSE IF l.SMMArr.nil
    THEN [l EXCEPT !.SMMArr = MakeSlice(l.Wam)]
    ELSE l

\* The pre-allocating revision: a non-zero CPR always recomputes the schedule.
ConvertCPRToSMMOpt(l) ==
    IF l.PrepayCPR # 0
    THEN [l EXCEPT !.SMMArr = Slice([k \in 1..l.Wam |-> SMMOf(l.PrepayCPR)])]
    ELSE IF l.SMMArr.nil
    THEN [l EXCEPT !.SMMArr = MakeSlice(l.Wam)]
    ELSE l

-----------------------------------------------------------------------------
(* AmortizationTable.TrueUpBalances *)

\* math.Abs(leftOver-lastEndBal) < 0.01 for a difference of d cents.  The
\* operands are binary floating point: a difference of one cent exactly comes
\* out just below or just above the float64 0.01 (0.03-0.02 is below,
\* 100.01-100 is above), which `tie` decides.
WithinTolerance(d, tie) == Abs(d) < 1 \/ (Abs(d) = 1 /\ tie)

\* TrueUpBalances also zeroing the last scheduled balance when it adjusts.
TrueUpBalancesAndSchedBal(a, tie) ==
    IF Len(a.Principal) = 0 THEN a
    ELSE LET lastIndex == Len(a.Principal)
             leftOver  == a.BegBal[lastIndex] - a.Principal[lastIndex]
                              - a.PrepayAmountArr[lastIndex]
             lastEndBal == a.EndBal[lastIndex]
         IN  IF WithinTolerance(leftOver - lastEndBal, tie) THEN a
             ELSE [a EXCEPT !.Principal[lastIndex] = @ + (leftOver - lastEndBal),
                            !.SchedBal[lastIndex] = 0,
                            !.EndBal[lastIndex] = 0]

TrueUpBalances(a, tie) ==
    IF Len(a.Principal) = 0 THEN a
    ELSE LET lastIndex     == Len(a.Principal)
             lastBegBal    == a.BegBal[lastIndex]
             lastPrincipal == a.Principal[lastIndex]
             lastPrepay    == a.PrepayAmountArr[lastIndex]
             lastEndBal    == a.EndBal[lastIndex]
             leftOver      == lastBegBal - lastPrincipal - lastPrepay
         IN  IF WithinTolerance(leftOver - lastEndBal, tie) THEN a
             ELSE IF leftOver # lastEndBal
             THEN [a EXCEPT !.Principal[lastIndex] = lastPrincipal + (leftOver - lastEndBal),
                            !.EndBal[lastIndex] = 0]
             ELSE a

-----------------------------------------------------------------------------
(* LoanInfo.GetAmortizationTable, amortization/amortization.go *)

\* The monthly rate wac/12/100 as a fraction in lowest terms.
RateNum(wac) == wac \div GCD(wac, 1200)

RateDen(wac) == 1200 \div GCD(wac, 1200)

\* PPmt called with the present value +face where the library's sign
\* convention wants -face: every payment comes out negative.
PPmtPositivePV(wac, per, nper, faceMills) ==
    LET a == RateNum(wac)
        b == RateDen(wac)
        c == a + b
    IN  -RoundDiv(faceMills * a * Pow(c, per - 1) * Pow(b, nper - per),
                  Pow(c, nper) - Pow(b, nper))

\* financial.PPmt(rate, per, nper, -face, 0, 0): the principal part of the
\* level payment in period per of nper, face * r(1+r)^(per-1) / ((1+r)^nper - 1),
\* in mills.  With r = a/b that is face * a (a+b)^(per-1) b^(nper-per) /
\* ((a+b)^nper - b^nper).  Only called with wac # 0: Pmt divides by the rate.
PPmt(wac, per, nper, faceMills) ==
    LET a == RateNum(wac)
        b == RateDen(wac)
        c == a + b
    IN  RoundDiv(faceMills * a * Pow(c, per - 1) * Pow(b, nper - per),
                 Pow(c, nper) - Pow(b, nper))

\* The arrays and the running balance tmp_face between two loop iterations.
LoopStart(l) == [tmp |-> l.Face * 1000, panic |-> FALSE, t |-> EmptyTable]

\* BegBalOf truncating to the cent where the ending balance is rounded.
BegBalTruncated(m) == m \div 10

\* The beginning balance stored for a running balance of m mills.
BegBalOf(m) == RoundCent(m)

\* One iteration of "for i := l.Wam; i > 0; i--", l.SMMArr already converted.
PeriodStep(l, st, i) ==
    LET j == Len(st.t.Period) + 1
    IN  IF st.panic THEN st
        ELSE IF l.Wac = 0 \/ j > Len(l.SMMArr.a) THEN [st EXCEPT !.panic = TRUE]
        ELSE
        LET prinPmt          == PPmt(l.Wac, i, l.Wam, l.Face * 1000)
            currentSchedBal  == RoundCent(st.tmp - prinPmt)
            prepayAmount     == RoundDiv(l.SMMArr.a[j] * currentSchedBal, 1000000)
            tmp_face         == ClampBal(st.tmp - prinPmt - prepayAmount * 10)
        IN  [tmp   |-> tmp_face,
             panic |-> FALSE,
             t     |-> AmortizationTable(
                 Append(st.t.Period, j),
                 Append(st.t.BegBal, BegBalOf(st.tmp)),
                 Append(st.t.Interest, RoundDiv(st.tmp * l.Wac, 12000)),
                 Append(st.t.Principal, RoundCent(prinPmt)),
                 Append(st.t.SchedBal, currentSchedBal),
                 Append(st.t.PrepayAmountArr, prepayAmount),
                 Append(st.t.EndBal, RoundCent(tmp_face)))]

\* PeriodLoop with the loop condition "i > 1": the last period is never run.
RECURSIVE PeriodLoopShort(_, _, _)
PeriodLoopShort(l, st, i) ==
    IF i <= 1 THEN st ELSE PeriodLoopShort(l, PeriodStep(l, st, i), i - 1)

RECURSIVE PeriodLoop(_, _, _)
PeriodLoop(l, st, i) ==
    IF i <= 0 THEN st ELSE PeriodLoop(l, PeriodStep(l, st, i), i - 1)

\* What a call returns: the table, or nothing when the call panicked.
Returned(t) == [status |-> "ok", table |-> t]

Panicked == [status |-> "panic", table |-> EmptyTable]

GetAmortizationTable(l, tie) ==
    LET st == PeriodLoop(ConvertCPRToSMM(l), LoopStart(l), l.Wam)
    IN  IF st.panic THEN Panicked ELSE Returned(TrueUpBalances(st.t, tie))

-----------------------------------------------------------------------------
(* LoanInfo.GetAmortizationTable, the pre-allocating revision *)

\* calculateMonthlyPayment(principal, monthlyRate, numPayments), in mills:
\* principal/n at a zero rate, else principal * r * f / (f - 1) with
\* f = (1+r)^n, computed as principal*r + principal*r/(f - 1).
calculateMonthlyPayment(faceMills, wac, n) ==
    IF wac = 0 THEN RoundDiv(faceMills, n)
    ELSE LET a == RateNum(wac)
             b == RateDen(wac)
             c == a + b
         IN  RoundDiv(faceMills * a, b)
               + RoundDiv(faceMills * a * Pow(b, n - 1), Pow(c, n) - Pow(b, n))

\* One iteration of "for j := 0; j < numPeriods; j++" with i periods remaining.
PeriodStepOpt(l, st, i, monthlyPayment) ==
    LET j == Len(st.t.Period) + 1
    IN  IF st.panic THEN st
        ELSE IF j > Len(l.SMMArr.a) THEN [st EXCEPT !.panic = TRUE]
        ELSE
        LET interestPayment  == RoundDiv(st.tmp * l.Wac, 1200)
            principalPayment == IF i = 1 THEN st.tmp
                                ELSE monthlyPayment - interestPayment
            currentSchedBal  == st.tmp - principalPayment
            prepayAmount     == RoundDiv(l.SMMArr.a[j] * currentSchedBal, 1000000)
            tmp_face         == ClampBal(currentSchedBal - prepayAmount)
        IN  [tmp   |-> tmp_face,
             panic |-> FALSE,
             t     |-> AmortizationTable(
                 Append(st.t.Period, j),
                 Append(st.t.BegBal, BegBalOf(st.tmp)),
                 Append(st.t.Interest, RoundCent(interestPayment)),
                 Append(st.t.Principal, RoundCent(principalPayment)),
                 Append(st.t.SchedBal, RoundCent(currentSchedBal)),
                 Append(st.t.PrepayAmountArr, RoundCent(prepayAmount)),
                 Append(st.t.EndBal, RoundCent(tmp_face)))]

RECURSIVE PeriodLoopOpt(_, _, _, _)
PeriodLoopOpt(l, st, i, mp) ==
    IF i <= 0 THEN st ELSE PeriodLoopOpt(l, PeriodStepOpt(l, st, i, mp), i - 1, mp)

\* This revision returns the table without calling TrueUpBalances.
GetAmortizationTableOpt(l) ==
    LET mp == IF l.Wam > 0 THEN calculateMonthlyPayment(l.Face * 1000, l.Wac, l.Wam)
              ELSE 0
        st == PeriodLoopOpt(ConvertCPRToSMMOpt(l), LoopStart(l), l.Wam, mp)
    IN  IF st.panic THEN Panicked ELSE Returned(st.t)

-----------------------------------------------------------------------------
(* The Delinquency Transition Model of the README: applyTransition and       *)
(* scaleDistribution.  A balance is in cents, a transition rate in percent,  *)
(* so an unscaled bucket is in hundredths of a cent.                         *)

\* The delinquency states: performing, dq30, ..., dq180, default.
States == 1..8

RECURSIVE SumUpTo(_, _)
SumUpTo(seq, n) == IF n = 0 THEN 0 ELSE seq[n] + SumUpTo(seq, n - 1)

\* "for _, val := range distribution { total += val }"
Total(distribution) == SumUpTo(distribution, Len(distribution))

ZeroDistribution == [k \in States |-> 0]

\* Rows of a transition matrix, in percent: all performing; 40/40/20 over the
\* first three states; and a row that does not sum to one.
TransitionRows ==
    { [k \in States |-> IF k = 1 THEN 100 ELSE 0],
      [k \in States |-> CASE k \in {1, 2} -> 40 [] k = 3 -> 20 [] OTHER -> 0],
      [k \in States |-> IF k <= 3 THEN 50 ELSE 0] }

\* "for i, rate := range transitions { result[i] += balance * rate }"
applyTransition(balance, transitions, result) ==
    [k \in States |-> result[k] + balance * transitions[k]]

\* distribution[i] = roundToCent(distribution[i] * targetBalance / total), in
\* cents; nothing is done when the total is not positive.
scaleDistribution(distribution, targetBalance) ==
    LET total == Total(distribution)
    IN  IF total <= 0 THEN distribution
        ELSE [k \in States |-> RoundDiv(distribution[k] * targetBalance, total)]

\* The roll-rate vector [0.4, 0.4, 0.2, 0, 0, 0, 0, 0] of a posted descriptor.
RollRates == Slice([k \in States |-> CASE k \in {1, 2} -> 40 [] k = 3 -> 20 [] OTHER -> 0])

NoDistribution == [status |-> "none", targetBalance |-> 0,
                   distribution |-> ZeroDistribution]

-----------------------------------------------------------------------------
(* The HTTP service: main.go and its revisions. *)

\* The POST /loans requests in flight.
Req == {1, 2}

\* The loans the clients post: two different valid ones and one with no id.
LoanA == LoanInfo("A", 1, 30, 10, 0, NilSlice, FALSE)

LoanB == LoanInfo("B", 2, 30, 20, 50, NilSlice, FALSE)

LoanX == LoanInfo("", 1, 30, 10, 0, NilSlice, FALSE)

PostedLoans == {LoanA, LoanB, LoanX}

\* Arrays of at most n loans with different ids.
SeqsUpTo(S, n) ==
    {b \in UNION {[1..k -> S] : k \in 0..n} :
        \A i, j \in DOMAIN b : i # j => b[i].ID # b[j].ID}

\* A body BindJSON rejects, or an array of loans.  The second request posts at
\* most one loan.
BadBody == [ok |-> FALSE, loans |-> <<>>]

Bodies(r) == {BadBody} \cup
    {[ok |-> TRUE, loans |-> b] :
        b \in SeqsUpTo(PostedLoans, IF r = 1 THEN MaxBatch ELSE 1)}

N(r) == Len(body[r].loans)

\* gin.H{"loan_id": ..., "cashflow": ...}; NoH is the nil map of a fresh slice.
NoH == [set |-> FALSE, loan_id |-> "", cashflow |-> EmptyTable]

H(id, t) == [set |-> TRUE, loan_id |-> id, cashflow |-> t]

NoResponse == [code |-> 0, results |-> <<>>]

ServiceInit ==
    /\ variant \in {"async", "seq", "pool"}
    /\ body \in [Req -> UNION {Bodies(r) : r \in Req}]
    /\ \A r \in Req : body[r] \in Bodies(r)
    /\ hpc = [r \in Req |-> "bind"]
    /\ hidx = [r \in Req |-> 0]
    /\ results = [r \in Req |-> <<>>]
    /\ resp = [r \in Req |-> NoResponse]
    /\ wpc = [r \in Req |-> [i \in 1..MaxBatch |-> "none"]]
    /\ files = [r \in Req |-> [i \in 1..MaxBatch |-> NoH]]
    /\ wg = [r \in Req |-> 0]
    /\ workerPool = 0
    /\ mu = [w |-> 0, r |-> 0]
    /\ mortgages = <<>>
    /\ gpc = "idle"
    /\ listing = <<>>
    /\ vpass = [r \in Req |-> 0]
    /\ vfail = [r \in Req |-> FALSE]
    /\ outOfOrder = [r \in Req |-> FALSE]

\* ---- sync.RWMutex mu ----

\* CanLock of a lock that never blocks.
CanLockAlways(m) == TRUE

\* mu.Lock() returns once no writer and no reader holds the lock.
CanLock(m) == m.w = 0 /\ m.r = 0

\* mu.RLock() returns once no writer holds the lock.
CanRLock(m) == m.w = 0

\* ---- getLoans ----

GetRLock ==
    /\ gpc = "idle"
    /\ CanRLock(mu)
    /\ mu' = [mu EXCEPT !.r = @ + 1]
    /\ gpc' = "locked"
    /\ UNCHANGED <<evars, fpTie, variant, body, hpc, hidx, results, resp, wpc,
                   files, wg, workerPool, mortgages, listing, vpass, vfail, outOfOrder>>

\* c.IndentedJSON(http.StatusOK, mortgages)
GetServe ==
    /\ gpc = "locked"
    /\ listing' = mortgages
    /\ gpc' = "read"
    /\ UNCHANGED <<evars, fpTie, variant, body, hpc, hidx, results, resp, wpc,
                   files, wg, workerPool, mu, mortgages, vpass, vfail, outOfOrder>>

\* defer mu.RUnlock()
GetRUnlock ==
    /\ gpc = "read"
    /\ mu' = [mu EXCEPT !.r = @ - 1]
    /\ listing' = <<>>
    /\ gpc' = "idle"
    /\ UNCHANGED <<evars, fpTie, variant, body, hpc, hidx, results, resp, wpc,
                   files, wg, workerPool, mortgages, vpass, vfail, outOfOrder>>

\* ---- requestCashflow: the handler ----

\* c.BindJSON(&loans), and the first statement after it in each revision.
Bind(r) ==
    /\ hpc[r] = "bind"
    /\ IF ~body[r].ok
       THEN /\ resp' = [resp EXCEPT ![r] = [code |-> 400, results |-> <<>>]]
            /\ hpc' = [hpc EXCEPT ![r] = "done"]
            /\ UNCHANGED results
       ELSE /\ hpc' = [hpc EXCEPT ![r] =
                  CASE variant = "async" -> "lock"
                    [] variant = "pool"  -> "spawn"
                    [] variant = "seq"   -> IF N(r) = 0 THEN "lock" ELSE "validate"]
            /\ results' = [results EXCEPT ![r] =
                  IF variant = "async" THEN <<>> ELSE [i \in 1..N(r) |-> NoH]]
            /\ UNCHANGED resp
    /\ UNCHANGED <<evars, fpTie, variant, body, hidx, wpc, files, wg, workerPool,
                   mu, mortgages, gpc, listing, vpass, vfail, outOfOrder>>

\* mu.Lock()
Lock(r) ==
    /\ hpc[r] = "lock"
    /\ CanLock(mu)
    /\ mu' = [mu EXCEPT !.w = r]
    /\ hpc' = [hpc EXCEPT ![r] = "append"]
    /\ hidx' = [hidx EXCEPT ![r] = 0]
    /\ UNCHANGED <<evars, fpTie, variant, body, results, resp, wpc, files, wg,
                   workerPool, mortgages, gpc, listing, vpass, vfail, outOfOrder>>

\* mortgages = append(mortgages, loans...): the loans are copied one by one.
AppendLoan(r) ==
    /\ hpc[r] = "append"
    /\ hidx[r] < N(r)
    /\ mortgages' = Append(mortgages, [req |-> r, idx |-> hidx[r] + 1])
    /\ hidx' = [hidx EXCEPT ![r] = @ + 1]
    /\ UNCHANGED <<evars, fpTie, variant, body, hpc, results, resp, wpc, files, wg,
                   workerPool, mu, gpc, listing, vpass, vfail, outOfOrder>>

\* mu.Unlock()
Unlock(r) ==
    /\ hpc[r] = "append"
    /\ hidx[r] = N(r)
    /\ mu' = [mu EXCEPT !.w = 0]
    /\ hpc' = [hpc EXCEPT ![r] = IF variant = "async" THEN "spawn" ELSE "respond"]
    /\ hidx' = [hidx EXCEPT ![r] = 0]
    /\ UNCHANGED <<evars, fpTie, variant, body, results, resp, wpc, files, wg,
                   workerPool, mortgages, gpc, listing, vpass, vfail, outOfOrder>>

\* One iteration of "for i, loan := range loans { go func(...) {...}(i, loan) }";
\* the README's revision does wg.Add(1) first.
Spawn(r) ==
    /\ hpc[r] = "spawn"
    /\ hidx[r] < N(r)
    /\ wpc' = [wpc EXCEPT ![r][hidx[r] + 1] = "wait"]
    /\ wg' = [wg EXCEPT ![r] = IF variant = "pool" THEN @ + 1 ELSE @]
    /\ hidx' = [hidx EXCEPT ![r] = @ + 1]
    /\ UNCHANGED <<evars, fpTie, variant, body, hpc, results, resp, files,
                   workerPool, mu, mortgages, gpc, listing, vpass, vfail, outOfOrder>>

\* main.go: c.JSON(http.StatusAccepted, ...) right after the loop.
RespondAccepted(r) ==
    /\ variant = "async"
    /\ hpc[r] = "spawn"
    /\ hidx[r] = N(r)
    /\ resp' = [resp EXCEPT ![r] = [code |-> 202, results |-> <<>>]]
    /\ hpc' = [hpc EXCEPT ![r] = "done"]
    /\ UNCHANGED <<evars, fpTie, variant, body, hidx, results, wpc, files, wg,
                   workerPool, mu, mortgages, gpc, listing, vpass, vfail, outOfOrder>>

\* WaitReturns of a handler that does not wait for its goroutines.
WaitReturnsAtOnce(n) == TRUE

\* wg.Wait() returns once the counter is zero.
WaitReturns(n) == n = 0

\* README: wg.Wait(), then c.JSON(http.StatusOK, {count, results}).
RespondAfterWait(r) ==
    /\ variant = "pool"
    /\ hpc[r] = "spawn"
    /\ hidx[r] = N(r)
    /\ WaitReturns(wg[r])
    /\ resp' = [resp EXCEPT ![r] = [code |-> 200, results |-> results[r]]]
    /\ hpc' = [hpc EXCEPT ![r] = "done"]
    /\ UNCHANGED <<evars, fpTie, variant, body, hidx, results, wpc, files, wg,
                   workerPool, mu, mortgages, gpc, listing, vpass, vfail, outOfOrder>>

\* AfterValidate with the "return" of the error branch left out.
AfterValidateNoReturn(err) == "compute"

\* Where the sequential handler goes on after loan.Validate() returned err.
AfterValidate(err) == IF err = "error" THEN "done" ELSE "compute"

\* Sequential revision: "if err := loan.Validate(); err != nil { 400; return }"
ValidateLoan(r) ==
    /\ hpc[r] = "validate"
    /\ IF Validate(body[r].loans[hidx[r] + 1]) = "error"
       THEN /\ resp' = [resp EXCEPT ![r] = [code |-> 400, results |-> <<>>]]
            /\ hpc' = [hpc EXCEPT ![r] = AfterValidate("error")]
            /\ vfail' = [vfail EXCEPT ![r] = TRUE]
            /\ UNCHANGED vpass
       ELSE /\ hpc' = [hpc EXCEPT ![r] = AfterValidate("nil")]
            /\ vpass' = [vpass EXCEPT ![r] = @ + 1]
            /\ UNCHANGED <<resp, vfail>>
    /\ UNCHANGED <<evars, fpTie, variant, body, hidx, results, wpc, files, wg,
                   workerPool, mu, mortgages, gpc, listing, outOfOrder>>

\* Sequential revision: amortTable := loan.GetAmortizationTable(); results[i] = ...
ComputeLoan(r) ==
    /\ hpc[r] = "compute"
    /\ LET i == hidx[r] + 1
           l == body[r].loans[i]
       IN  /\ results' = [results EXCEPT ![r][i] =
                              H(l.ID, GetAmortizationTable(l, fpTie).table)]
           /\ wpc' = [wpc EXCEPT ![r][i] = "done"]
           /\ hidx' = [hidx EXCEPT ![r] = i]
           /\ hpc' = [hpc EXCEPT ![r] = IF i = N(r) THEN "lock" ELSE "validate"]
    /\ UNCHANGED <<evars, fpTie, variant, body, resp, files, wg, workerPool, mu,
                   mortgages, gpc, listing, vpass, vfail, outOfOrder>>

\* Sequential revision: c.JSON(http.StatusOK, {count, results})
RespondOK(r) ==
    /\ hpc[r] = "respond"
    /\ resp' = [resp EXCEPT ![r] = [code |-> 200, results |-> results[r]]]
    /\ hpc' = [hpc EXCEPT ![r] = "done"]
    /\ UNCHANGED <<evars, fpTie, variant, body, hidx, results, wpc, files, wg,
                   workerPool, mu, mortgages, gpc, listing, vpass, vfail, outOfOrder>>

\* ---- requestCashflow: the goroutine started for loan i of request r ----

\* CanAcquire of an unbounded channel.
CanAcquireAlways(n) == TRUE

\* "workerPool <- struct{}{}" proceeds while the channel is not full.
CanAcquire(n) == n < WorkerLimit

\* Acquire on a pool every request makes for itself: only the goroutines of
\* the same request count against the limit.
AcquirePerRequest(r, i) ==
    /\ wpc[r][i] = "wait"
    /\ Cardinality({k \in 1..MaxBatch : wpc[r][k] \in {"run", "computed"}})
          < WorkerLimit
    /\ workerPool' = workerPool + 1
    /\ wpc' = [wpc EXCEPT ![r][i] = "run"]
    /\ UNCHANGED <<evars, fpTie, variant, body, hpc, hidx, results, resp, files, wg,
                   mu, mortgages, gpc, listing, vpass, vfail, outOfOrder>>

Acquire(r, i) ==
    /\ wpc[r][i] = "wait"
    /\ CanAcquire(workerPool)
    /\ workerPool' = workerPool + 1
    /\ wpc' = [wpc EXCEPT ![r][i] = "run"]
    /\ UNCHANGED <<evars, fpTie, variant, body, hpc, hidx, results, resp, files, wg,
                   mu, mortgages, gpc, listing, vpass, vfail, outOfOrder>>

\* main.go builds the LoanInfo it computes from four fields of the posted loan.
Stripped(l) == LoanInfo(l.ID, l.Wam, l.Wac, l.Face, 0, NilSlice, FALSE)

\* SlotOf of a goroutine that takes the first slot still empty.
SlotOfFirstFree(i, res) ==
    CHOOSE k \in 1..Len(res) : ~res[k].set /\ \A j \in 1..(k - 1) : res[j].set

\* SlotOf of a closure that reads the loop variable of the handler where it
\* should take the index as a parameter: it sees the last index.
SlotOfLoopVariable(i, res) == Len(res)

\* The slot of the results slice the goroutine for loan i writes.
SlotOf(i, res) == i

\* amortTable := ...GetAmortizationTable(); the README's revision stores it in
\* results[index].
Compute(r, i) ==
    /\ wpc[r][i] = "run"
    /\ wpc' = [wpc EXCEPT ![r][i] = "computed"]
    /\ IF variant = "pool"
       THEN LET l == body[r].loans[i]
            IN  /\ results' = [results EXCEPT ![r][SlotOf(i, results[r])] =
                                   H(l.ID, GetAmortizationTable(l, fpTie).table)]
                /\ outOfOrder' = [outOfOrder EXCEPT ![r] =
                                   @ \/ \E k \in 1..(i - 1) : ~results[r][k].set]
       ELSE UNCHANGED <<results, outOfOrder>>
    /\ UNCHANGED <<evars, fpTie, variant, body, hpc, hidx, resp, files, wg,
                   workerPool, mu, mortgages, gpc, listing, vpass, vfail>>

\* main.go: the document is written, then the deferred "<-workerPool" runs.
SaveFile(r, i) ==
    /\ variant = "async"
    /\ wpc[r][i] = "computed"
    /\ LET l == body[r].loans[i]
       IN  files' = [files EXCEPT ![r][i] =
                         H(l.ID, GetAmortizationTable(Stripped(l), fpTie).table)]
    /\ workerPool' = workerPool - 1
    /\ wpc' = [wpc EXCEPT ![r][i] = "done"]
    /\ UNCHANGED <<evars, fpTie, variant, body, hpc, hidx, results, resp, wg,
                   mu, mortgages, gpc, listing, vpass, vfail, outOfOrder>>

\* SaveFails with the release written after the save and not deferred: the
\* early return skips it.
SaveFailsNoRelease(r, i) ==
    /\ variant = "async"
    /\ wpc[r][i] = "computed"
    /\ wpc' = [wpc EXCEPT ![r][i] = "done"]
    /\ UNCHANGED <<evars, fpTie, variant, body, hpc, hidx, results, resp, files, wg,
                   workerPool, mu, mortgages, gpc, listing, vpass, vfail, outOfOrder>>

\* main.go: os.Create fails, "return", and the deferred "<-workerPool" runs.
SaveFails(r, i) ==
    /\ variant = "async"
    /\ wpc[r][i] = "computed"
    /\ workerPool' = workerPool - 1
    /\ wpc' = [wpc EXCEPT ![r][i] = "done"]
    /\ UNCHANGED <<evars, fpTie, variant, body, hpc, hidx, results, resp, files, wg,
                   mu, mortgages, gpc, listing, vpass, vfail, outOfOrder>>

\* README: the deferred "<-workerPool; wg.Done()".
Release(r, i) ==
    /\ variant = "pool"
    /\ wpc[r][i] = "computed"
    /\ workerPool' = workerPool - 1
    /\ wg' = [wg EXCEPT ![r] = @ - 1]
    /\ wpc' = [wpc EXCEPT ![r][i] = "done"]
    /\ UNCHANGED <<evars, fpTie, variant, body, hpc, hidx, results, resp, files,
                   mu, mortgages, gpc, listing, vpass, vfail, outOfOrder>>

\* The amortization package's own variables while the service is what runs.
EngineIdle ==
    /\ loan = LoanA
    /\ rev = "ppmt"
    /\ verr = "unset"
    /\ out = [status |-> "none", table |-> EmptyTable]
    /\ calls = 0
    /\ delinq = NoDistribution

Init == ServiceInit /\ EngineIdle /\ fpTie = FALSE

Next ==
    \/ GetRLock
    \/ GetServe
    \/ GetRUnlock
    \/ \E r \in Req : Bind(r)
    \/ \E r \in Req : Lock(r)
    \/ \E r \in Req : AppendLoan(r)
    \/ \E r \in Req : Unlock(r)
    \/ \E r \in Req : Spawn(r)
    \/ \E r \in Req : RespondAccepted(r)
    \/ \E r \in Req : RespondAfterWait(r)
    \/ \E r \in Req : ValidateLoan(r)
    \/ \E r \in Req : ComputeLoan(r)
    \/ \E r \in Req : RespondOK(r)
    \/ \E r \in Req, i \in 1..MaxBatch : Acquire(r, i)
    \/ \E r \in Req, i \in 1..MaxBatch : Compute(r, i)
    \/ \E r \in Req, i \in 1..MaxBatch : SaveFile(r, i)
    \/ \E r \in Req, i \in 1..MaxBatch : SaveFails(r, i)
    \/ \E r \in Req, i \in 1..MaxBatch : Release(r, i)

Spec == Init /\ [][Next]_vars

\* Where a step that calls GetAmortizationTable starts and where it leaves its
\* goroutine.  A step of the service is such a step exactly when it is a step
\* of the action named, and the two are enabled in the same states, so
\* fairness of one is fairness of the other.
ComputeLoanStep(r) ==
    hpc[r] = "compute" /\ hidx' = [hidx EXCEPT ![r] = @ + 1]

ComputeStep(r, i) ==
    wpc[r][i] = "run" /\ wpc' = [wpc EXCEPT ![r][i] = "computed"]

\* SaveFile(r, i) \/ SaveFails(r, i): the file is written or it is not.
SaveStep(r, i) ==
    /\ variant = "async"
    /\ wpc[r][i] = "computed"
    /\ wpc' = [wpc EXCEPT ![r][i] = "done"]

\* Scheduling.  The Go scheduler runs every runnable goroutine sooner or
\* later (weak fairness of each step); that covers a goroutine whose send on
\* workerPool can proceed.  A writer blocked in mu.Lock() keeps later readers
\* out, so it is not passed over for ever (strong fairness of Lock).  No
\* client is obliged to send a GET.
Fairness ==
    /\ WF_vars(GetServe)
    /\ WF_vars(GetRUnlock)
    /\ \A r \in Req :
          /\ WF_vars(Bind(r))
          /\ SF_vars(Lock(r))
          /\ WF_vars(AppendLoan(r))
          /\ WF_vars(Unlock(r))
          /\ WF_vars(Spawn(r))
          /\ WF_vars(RespondAccepted(r))
          /\ WF_vars(RespondAfterWait(r))
          /\ WF_vars(ValidateLoan(r))
          /\ WF_hidx(ComputeLoanStep(r))
          /\ WF_vars(RespondOK(r))
    /\ \A r \in Req, i \in 1..MaxBatch :
          /\ WF_vars(Acquire(r, i))
          /\ WF_wpc(ComputeStep(r, i))
          /\ WF_wpc(SaveStep(r, i))
          /\ WF_vars(Release(r, i))

\* Two POST requests that compete for the worker slots: a batch of MaxBatch
\* loans, more than there are slots, and a single loan.
FairInit ==
    /\ Init
    /\ body[1].ok
    /\ Len(body[1].loans) = MaxBatch
    /\ body[1].loans[1] = LoanA
    /\ body[2] = [ok |-> TRUE, loans |-> <<LoanA>>]

FairSpec == FairInit /\ [][Next]_vars /\ Fairness

\* The service's variables while one calculation is what runs.
ServiceIdle ==
    /\ variant = "async"
    /\ body = [r \in Req |-> BadBody]
    /\ hpc = [r \in Req |-> "done"]
    /\ hidx = [r \in Req |-> 0]
    /\ results = [r \in Req |-> <<>>]
    /\ resp = [r \in Req |-> NoResponse]
    /\ wpc = [r \in Req |-> [i \in 1..MaxBatch |-> "none"]]
    /\ files = [r \in Req |-> [i \in 1..MaxBatch |-> NoH]]
    /\ wg = [r \in Req |-> 0]
    /\ workerPool = 0
    /\ mu = [w |-> 0, r |-> 0]
    /\ mortgages = <<>>
    /\ gpc = "idle"
    /\ listing = <<>>
    /\ vpass = [r \in Req |-> 0]
    /\ vfail = [r \in Req |-> FALSE]
    /\ outOfOrder = [r \in Req |-> FALSE]

-----------------------------------------------------------------------------
(* One calculation: a descriptor, and the package's methods called on it. *)

\* The callers' calls per descriptor the model follows.
MaxCalls == 3

\* A schedule the caller supplies in smm_arr: any length up to MaxWam, one
\* speed: none, 2% a month, or 60% a month (a CPR just below 1).
SuppliedSMM ==
    {Slice([k \in 1..n |-> v]) : n \in 0..MaxWam, v \in {0, 20000, 600000}}

\* Descriptors the engine is run on (the handlers of main.go and of the README
\* run it on whatever was posted).
EngineLoans ==
    {WithTransitions(LoanInfo("L1", wam, wac, face, cpr, smm, dq),
                     IF dq THEN RollRates ELSE NilSlice) :
        wam \in 0..MaxWam, wac \in {0, 30}, face \in {10, 20}, cpr \in {0, 6, 50},
        smm \in {NilSlice} \cup SuppliedSMM, dq \in BOOLEAN}

\* Descriptors on and around every limit Validate and the guide name.
BoundaryLoans ==
    {LoanInfo(id, wam, wac, face, cpr, NilSlice, FALSE) :
        id \in {"", "L1"}, wam \in {0, 1, 480, 481}, wac \in {-1, 0, 30, 31},
        face \in {-1, 0, 1, MaxFace, MaxFace + 1}, cpr \in {-1, 0, 99, 100}}

\* The engine's arithmetic stays in TLC's integers for these.
Computable(l) ==
    /\ l.Wam <= MaxWam
    /\ l.Wac \in {0, 30}
    /\ Abs(l.Face) <= 20
    /\ l.PrepayCPR \in {0, 6, 20, 50}

\* The pre-allocating revision multiplies a speed by an unrounded balance.
ComputableOpt(l) ==
    /\ Computable(l)
    /\ \A k \in 1..Len(l.SMMArr.a) : l.SMMArr.a[k] <= 20000

EngineInit ==
    /\ loan \in EngineLoans \cup BoundaryLoans
    /\ rev \in {"ppmt", "level"}
    /\ fpTie \in BOOLEAN
    /\ verr = "unset"
    /\ out = [status |-> "none", table |-> EmptyTable]
    /\ calls = 0
    /\ delinq = NoDistribution
    /\ ServiceIdle

CallValidate ==
    /\ calls < MaxCalls
    /\ verr' = Validate(loan)
    /\ calls' = calls + 1
    /\ UNCHANGED <<loan, rev, fpTie, out, delinq, svars>>

\* loan.GetAmortizationTable() of amortization/amortization.go
CallGetAmortizationTable ==
    /\ calls < MaxCalls
    /\ rev = "ppmt"
    /\ Computable(loan)
    /\ out # Panicked
    /\ loan' = ConvertCPRToSMM(loan)
    /\ out' = GetAmortizationTable(loan, fpTie)
    /\ calls' = calls + 1
    /\ UNCHANGED <<rev, fpTie, verr, delinq, svars>>

\* loan.GetAmortizationTable() of the pre-allocating revision
CallGetAmortizationTableOpt ==
    /\ calls < MaxCalls
    /\ rev = "level"
    /\ ComputableOpt(loan)
    /\ out # Panicked
    /\ loan' = ConvertCPRToSMMOpt(loan)
    /\ out' = GetAmortizationTableOpt(loan)
    /\ calls' = calls + 1
    /\ UNCHANGED <<rev, fpTie, verr, delinq, svars>>

\* table.TrueUpBalances() called by the owner of a returned table
CallTrueUpBalances ==
    /\ calls < MaxCalls
    /\ out.status = "ok"
    /\ out' = [out EXCEPT !.table = TrueUpBalances(out.table, fpTie)]
    /\ calls' = calls + 1
    /\ UNCHANGED <<loan, rev, fpTie, verr, delinq, svars>>

\* The delinquency distribution of one period of a table computed for a
\* descriptor with static_dq set: the period's ending balance put through a
\* transition row and scaled back to that balance.
CallScaleDistribution ==
    /\ calls < MaxCalls
    /\ out.status = "ok"
    /\ loan.StaticDQ
    /\ \E i \in 1..Len(out.table.EndBal), row \in TransitionRows :
          LET balance == out.table.EndBal[i]
              result  == applyTransition(balance, row, ZeroDistribution)
          IN  delinq' = [status |-> "scaled", targetBalance |-> balance,
                         distribution |-> scaleDistribution(result, balance)]
    /\ calls' = calls + 1
    /\ UNCHANGED <<loan, rev, fpTie, verr, out, svars>>

EngineNext ==
    \/ CallValidate
    \/ CallGetAmortizationTable
    \/ CallGetAmortizationTableOpt
    \/ CallTrueUpBalances
    \/ CallScaleDistribution

EngineSpec == EngineInit /\ [][EngineNext]_vars

-----------------------------------------------------------------------------
(* A table built by a caller, and TrueUpBalances called on it: the fields of  *)
(* AmortizationTable and the method are exported.                            *)

\* Periods of the tables callers build.
MaxRows == 2

\* A table of n periods, in cents: every period but the last begins at 1.00,
\* pays 0.50, prepays 0.10 and ends at 0.40; the last period is as given.
TableOf(n, beg, prin, prepay, end) ==
    AmortizationTable(
        [k \in 1..n |-> k],
        [k \in 1..n |-> IF k = n THEN beg ELSE 100],
        [k \in 1..n |-> 1],
        [k \in 1..n |-> IF k = n THEN prin ELSE 50],
        [k \in 1..n |-> IF k = n THEN beg - prin ELSE 50],
        [k \in 1..n |-> IF k = n THEN prepay ELSE 10],
        [k \in 1..n |-> IF k = n THEN end ELSE 40])

CallerTables ==
    {EmptyTable} \cup
    {TableOf(n, beg, prin, prepay, end) :
        n \in 1..MaxRows, beg \in {0, 100}, prin \in {0, 50, 100},
        prepay \in {0, 10}, end \in {0, 40, 50}}

TableInit ==
    /\ loan = LoanA
    /\ rev = "ppmt"
    /\ fpTie \in BOOLEAN
    /\ verr = "unset"
    /\ out \in {Returned(t) : t \in CallerTables}
    /\ calls = 0
    /\ delinq = NoDistribution
    /\ ServiceIdle

TableNext == CallTrueUpBalances

TableSpec == TableInit /\ [][TableNext]_vars

-----------------------------------------------------------------------------
(* Properties of the service, checked under Spec. *)

\* GetAmortizationTable has been called and has returned for loan i of request r.
Computed(r, i) == wpc[r][i] \in {"computed", "done"}

\* The goroutines holding a token of workerPool.
InSlot == {p \in Req \X (1..MaxBatch) : wpc[p[1]][p[2]] \in {"run", "computed"}}

\* The loans of request r among the entries of a list of stored loans.
Stored(list, r) == {k \in 1..Len(list) : list[k].req = r}

\* C1: once a handler returns results, results[i] carries the loan id and the
\* cashflow of the i-th loan of the body, whatever order the goroutines
\* finished in.
C1_ResultsInInputOrder ==
    \A r \in Req : resp[r].code = 200 =>
        /\ Len(resp[r].results) = N(r)
        /\ \A i \in 1..N(r) :
              resp[r].results[i] =
                  H(body[r].loans[i].ID,
                    GetAmortizationTable(body[r].loans[i], fpTie).table)

C1_Witness ==
    \E r \in Req : /\ variant = "pool"
                   /\ resp[r].code = 200
                   /\ N(r) >= 2
                   /\ outOfOrder[r]

\* C2: at no time do more than WorkerLimit loans hold a worker slot, also when
\* a batch has more loans than there are slots.
C2_AtMostWorkerLimitInSlot ==
    /\ Cardinality(InSlot) <= WorkerLimit
    /\ workerPool <= WorkerLimit

C2_Witness ==
    \E r \in Req : /\ N(r) > WorkerLimit
                   /\ Cardinality(InSlot) = WorkerLimit
                   /\ \E i \in 1..N(r) : wpc[r][i] = "wait"

C4_ValidateAllBeforeComputing ==
    \A r \in Req :
        /\ (\E i \in 1..N(r) : Computed(r, i)) => vpass[r] = N(r)
        /\ (\E i \in 1..N(r) : Validate(body[r].loans[i]) = "error") =>
               \A i \in 1..N(r) : ~Computed(r, i)

C7_StoreLockedAndBatchesWhole ==
    /\ Cardinality({r \in Req : hpc[r] = "append"}) <= 1
    /\ gpc \in {"locked", "read"} => \A r \in Req : hpc[r] # "append"
    /\ gpc = "read" =>
          \A r \in Req : Cardinality(Stored(listing, r)) \in {0, N(r)}

C7_Witness ==
    \E r1, r2 \in Req :
        /\ r1 # r2
        /\ hpc[r1] = "append" /\ N(r1) = 2 /\ hidx[r1] = 1
        /\ hpc[r2] = "lock"
        /\ gpc = "idle"

\* C8: every loan in the store belongs to a batch all of whose loans have
\* been computed.
C8_StoredOnlyAfterComputed ==
    \A k \in 1..Len(mortgages) :
        \A i \in 1..N(mortgages[k].req) : Computed(mortgages[k].req, i)

\* The table the engine returns for loan i of the body of request r.
EngineTable(r, i) == GetAmortizationTable(body[r].loans[i], fpTie).table

\* C23: the table a handler puts into results, or a goroutine writes to its
\* file, for loan i of a batch is the table the engine returns for the whole
\* descriptor posted at index i, prepayCPR included.
C23_TableOfCompleteDescriptor ==
    \A r \in Req : \A i \in 1..N(r) :
        /\ files[r][i].set => files[r][i].cashflow = EngineTable(r, i)
        /\ (i <= Len(results[r]) /\ results[r][i].set) =>
               results[r][i].cashflow = EngineTable(r, i)

\* Every handler has returned and every goroutine it started has ended.
Quiescent ==
    /\ \A r \in Req : hpc[r] = "done"
    /\ \A r \in Req, i \in 1..MaxBatch : wpc[r][i] \in {"none", "done"}

\* C24: under fair scheduling every goroutine waiting for a worker slot gets
\* one and ends, whether or not its file could be written; the service comes
\* to rest, and at rest every slot is free.
C24_EveryWorkerFinishes ==
    /\ \A r \in Req, i \in 1..MaxBatch :
          (wpc[r][i] = "wait") ~> (wpc[r][i] = "done")
    /\ <>Quiescent
    /\ [](Quiescent => workerPool = 0)

C24_Witness ==
    \E r \in Req :
        /\ variant = "async"
        /\ N(r) > WorkerLimit
        /\ Quiescent
        /\ workerPool = 0
        /\ \E i, k \in 1..N(r) : files[r][i].set /\ ~files[r][k].set

\* Slot k of the results of request r is written by this step.
Written(r, k) ==
    /\ k <= Len(results[r])
    /\ k <= Len(results'[r])
    /\ results'[r][k] # results[r][k]

\* C25: in the worker pool of the README a slot of results is written only by
\* the goroutine started for its index, only while it is still empty, and only
\* before the response is sent; and when the response is sent every slot has
\* been written.
C25_EachSlotWrittenOnceByItsWorker ==
    [][variant = "pool" =>
          /\ \A r \in Req, k \in 1..MaxBatch :
                Written(r, k) =>
                    /\ ~results[r][k].set
                    /\ results'[r][k].set
                    /\ wpc[r][k] = "run" /\ wpc'[r][k] = "computed"
                    /\ resp[r].code = 0
          /\ \A r \in Req :
                (resp[r].code = 0 /\ resp'[r].code = 200) =>
                    \A k \in 1..N(r) : results[r][k].set]_vars

C25_Witness ==
    \E r \in Req :
        /\ variant = "pool"
        /\ N(r) = MaxBatch
        /\ Len(results[r]) = MaxBatch
        /\ results[r][MaxBatch].set
        /\ ~results[r][1].set
        /\ wpc[r][1] = "wait"
        /\ resp[r].code = 0

\* How many loans of request r are between acquiring a token and releasing it.
MidComputation(r) ==
    Cardinality({i \in 1..MaxBatch : wpc[r][i] \in {"run", "computed"}})

\* C30: the tokens in the one workerPool channel are the loans in computation
\* of all requests in flight taken together, and their number never exceeds
\* the capacity of the channel.
C30_OnePoolForAllRequests ==
    /\ workerPool = SumUpTo([r \in Req |-> MidComputation(r)], Cardinality(Req))
    /\ SumUpTo([r \in Req |-> MidComputation(r)], Cardinality(Req)) <= WorkerLimit

C30_Witness ==
    \E r1, r2 \in Req :
        /\ r1 # r2
        /\ MidComputation(r1) = WorkerLimit
        /\ \E k \in 1..N(r2) : wpc[r2][k] = "wait"
        /\ hpc[r2] = "done"

-----------------------------------------------------------------------------
(* Properties of the amortization package, checked under EngineSpec. *)

\* The conditions under which the specification has Validate return an error.
Invalid(l) ==
    \/ l.ID = ""
    \/ l.Wam < 1 \/ l.Wam > 480
    \/ l.Wac < 0 \/ l.Wac > 30
    \/ l.Face <= 0 \/ l.Face > MaxFace
    \/ l.PrepayCPR < 0 \/ l.PrepayCPR >= 100

\* C6: Validate returns an error exactly when the id is empty, or wam, wac,
\* face or prepayCPR is outside its range, face > 1e8 included.
C6_ValidateRejectsExactlyInvalid ==
    verr # "unset" => (verr = "error" <=> Invalid(loan))

C10_BalanceCarriedForward ==
    out.status = "ok" =>
        \A i \in 1..(Len(out.table.EndBal) - 1) :
            out.table.BegBal[i + 1] = out.table.EndBal[i]

C10_Witness ==
    /\ out.status = "ok"
    /\ Len(out.table.EndBal) >= 2
    /\ out.table.EndBal[1] > 0
    /\ out.table.BegBal[2] = out.table.EndBal[1]

\* C11: in a returned table every period's scheduled balance is the stored
\* beginning balance less the stored principal, to the cent.
C11_SchedBalIsBegBalLessPrincipal ==
    out.status = "ok" =>
        \A i \in 1..Len(out.table.SchedBal) :
            out.table.SchedBal[i] = out.table.BegBal[i] - out.table.Principal[i]

\* C12: in a returned table every period's ending balance is the stored
\* scheduled balance less the stored prepayment, floored at zero.
C12_EndBalIsSchedBalLessPrepay ==
    out.status = "ok" =>
        \A i \in 1..Len(out.table.EndBal) :
            out.table.EndBal[i] =
                ClampBal(out.table.SchedBal[i] - out.table.PrepayAmountArr[i])

\* The seven per-period sequences of a table.
Columns(t) == <<t.Period, t.BegBal, t.Interest, t.Principal, t.SchedBal,
                t.PrepayAmountArr, t.EndBal>>

\* C13: the table returned for a loan of wam >= 1 periods has seven sequences
\* of length wam each, and its periods are numbered 1, 2, ..., wam.
C13_SevenSequencesOfLengthWam ==
    (out.status = "ok" /\ loan.Wam >= 1) =>
        /\ \A k \in 1..7 : Len(Columns(out.table)[k]) = loan.Wam
        /\ \A i \in 1..loan.Wam : out.table.Period[i] = i

C13_Witness ==
    /\ out.status = "ok"
    /\ loan.Wam >= 3
    /\ Len(out.table.EndBal) = loan.Wam
    /\ out.table.Period[3] = 3

\* Every entry of a sequence of numbers is zero.
AllZero(seq) == \A i \in 1..Len(seq) : seq[i] = 0

C15_ScheduleHasLengthWam ==
    (out.status # "none" /\ loan.Wam >= 1) =>
        /\ ~loan.SMMArr.nil
        /\ Len(loan.SMMArr.a) = loan.Wam
        /\ loan.PrepayCPR > 0 =>
              \A i \in 1..Len(loan.SMMArr.a) : loan.SMMArr.a[i] = SMMOf(loan.PrepayCPR)
        /\ (loan.Wac # 0 /\ loan.Wam >= 1) => out.status = "ok"

\* The level payment of a descriptor, to the cent.
LevelPayment(l) == RoundCent(calculateMonthlyPayment(l.Face * 1000, l.Wac, l.Wam))

\* C16: in a returned table the principal of every period but the last is the
\* level payment less that period's interest, and the principal of the last
\* period is the whole balance the period began with.
C16_LevelPaymentSplit ==
    (out.status = "ok" /\ loan.Wam >= 1) =>
        /\ \A j \in 1..(loan.Wam - 1) :
              out.table.Principal[j] = LevelPayment(loan) - out.table.Interest[j]
        /\ out.table.Principal[loan.Wam] = out.table.BegBal[loan.Wam]

\* Descriptor m is descriptor l but for the monthly-mortality sequence.
SameButSMMArr(l, m) == [m EXCEPT !.SMMArr = l.SMMArr] = l

C22_ZeroRateComputed ==
    (/\ out.status # "none"
     /\ Validate(loan) = "nil"
     /\ loan.Wac = 0
     /\ Len(loan.SMMArr.a) = loan.Wam) =>
        /\ out.status = "ok"
        /\ AllZero(out.table.Interest)
        /\ \A j \in 1..Len(out.table.Principal) :
              Abs(out.table.Principal[j] - RoundDiv(loan.Face * 100, loan.Wam)) <= 1

\* No entry of a sequence of numbers is negative.
NonNegative(seq) == \A i \in 1..Len(seq) : seq[i] >= 0

\* C27: in the table returned for a loan that passes validation no beginning
\* balance, interest, principal, scheduled balance, prepayment or ending
\* balance is negative, in any period.
C27_NoNegativeEntry ==
    (out.status = "ok" /\ Validate(loan) = "nil") =>
        \A k \in 2..7 : NonNegative(Columns(out.table)[k])

C29_RetiredEqualsLent ==
    (out.status = "ok" /\ Validate(loan) = "nil") =>
        Abs(Total(out.table.Principal) + Total(out.table.PrepayAmountArr)
              - loan.Face * 100) <= loan.Wam

-----------------------------------------------------------------------------
(* Properties of TrueUpBalances, checked under TableSpec. *)

\* C17: a table TrueUpBalances has been applied to is left as it is by
\* another application, whatever table it was to begin with.
C17_TrueUpIdempotent ==
    (out.status = "ok" /\ calls >= 1) =>
        TrueUpBalances(out.table, fpTie) = out.table

\* Table u differs from table t in nothing but the last principal and the
\* last ending balance.
OnlyLastPrincipalAndEndBal(t, u) ==
    LET last == Len(t.Principal)
    IN  /\ u.Period = t.Period
        /\ u.BegBal = t.BegBal
        /\ u.Interest = t.Interest
        /\ u.SchedBal = t.SchedBal
        /\ u.PrepayAmountArr = t.PrepayAmountArr
        /\ u.DelinqArrays = t.DelinqArrays
        /\ Len(u.Principal) = last
        /\ Len(u.EndBal) = Len(t.EndBal)
        /\ \A i \in 1..(last - 1) : /\ u.Principal[i] = t.Principal[i]
                                    /\ u.EndBal[i] = t.EndBal[i]
        /\ last = 0 => u = t

\* C18: a call of TrueUpBalances changes at most the last principal and the
\* last ending balance of the table, and nothing of an empty table.
C18_TrueUpTouchesLastPeriodOnly ==
    [][CallTrueUpBalances => OnlyLastPrincipalAndEndBal(out.table, out'.table)]_vars

C18_Witness ==
    /\ calls >= 1
    /\ Len(out.table.Principal) = 2
    /\ out.table = [TableOf(2, 100, 60, 0, 0) EXCEPT !.SchedBal[2] = 50]

\* What the last period of table t fails to account for, in cents:
\* begBal - principal - prepayAmount - endBal.
LastResidual(t) ==
    LET last == Len(t.Principal)
    IN  t.BegBal[last] - t.Principal[last] - t.PrepayAmountArr[last] - t.EndBal[last]

\* C26: the last period of a table TrueUpBalances has been applied to is
\* consistent within the tolerance, whatever table it was to begin with.
C26_LastPeriodConsistentAfterTrueUp ==
    (out.status = "ok" /\ calls >= 1 /\ Len(out.table.Principal) >= 1) =>
        WithinTolerance(LastResidual(out.table), fpTie)

-----------------------------------------------------------------------------
(* Properties of the delinquency model, checked under EngineSpec. *)

\* The eight delinquency sequences of a table.
Buckets(t) == <<t.DelinqArrays.PerfArr, t.DelinqArrays.DQ30Arr,
                t.DelinqArrays.DQ60Arr, t.DelinqArrays.DQ90Arr,
                t.DelinqArrays.DQ120Arr, t.DelinqArrays.DQ150Arr,
                t.DelinqArrays.DQ180Arr, t.DelinqArrays.DefaultArr>>

\* Every delinquency sequence of table t has an entry for period i.
HasBuckets(t, i) == \A k \in States : i <= Len(Buckets(t)[k])

\* C19: with static_dq set, the eight bucket values a table stores for a
\* period add up to the period's ending balance, and so do the eight values
\* of a distribution scaled to a balance.
C19_BucketsSumToBalance ==
    /\ (out.status = "ok" /\ loan.StaticDQ) =>
          \A i \in 1..Len(out.table.EndBal) :
              /\ HasBuckets(out.table, i)
              /\ Total([k \in States |-> Buckets(out.table)[k][i]])
                    = out.table.EndBal[i]
    /\ delinq.status = "scaled" =>
          Total(delinq.distribution) = delinq.targetBalance

\* C20: the eight delinquency sequences of a returned table have wam entries
\* each when static_dq is set and none when it is not.
C20_BucketsExactlyWhenStaticDQ ==
    out.status = "ok" =>
        \A k \in States :
            Len(Buckets(out.table)[k]) = IF loan.StaticDQ THEN loan.Wam ELSE 0

=============================================================================
